---- MODULE Spec2Model ----
(***************************************************************************)
(* Model of src/app.py, the Streamlit "Blood Pressure Tracker" script.     *)
(* One run of the script is the sequence of its sections:                  *)
(*   LOAD DATA -> DEFAULT DATE RANGE -> SIDEBAR -> FILTER DATA -> GRAPH    *)
(*   -> RAW DATA table; Streamlit re-executes the script on interaction.   *)
(*                                                                         *)
(* Time is counted in ticks; a second is TicksPerSecond ticks, so that     *)
(* instants between two whole seconds exist.  A timestamp is               *)
(* day * TicksPerDay + time of day, a date is a day number.                *)
(*                                                                         *)
(* A cell of a metric column is what worksheet.get_all_records() yields    *)
(* for the sheet cell: a number, the empty string '' for a blank cell, or  *)
(* the float nan for a cell holding the text "nan" (gspread numericises    *)
(* with int() then float()).  Every row has a parseable Timestamp.         *)
(***************************************************************************)
EXTENDS Integers, Sequences, FiniteSets, TLC

\* ------------------------------------------------------------ bounds
MaxRows == 2
MaxDay == 2
TicksPerSecond == 2
MaxOdd == 1

\* ------------------------------------------------------------ constants
SecondsPerDay == 86400
TicksPerDay == SecondsPerDay * TicksPerSecond

Systolic == "Systolic (mmHg)"
Diastolic == "Diastolic (mmHg)"
Pulse == "Pulse (bpm)"
\* a sheet column that column_rename_map and emergency_ranges do not know
SpO2 == "SpO2 (%)"

variables == {Systolic, Diastolic, Pulse}

emergency_ranges ==
    [m \in variables |->
        CASE m = Systolic -> <<90, 129>>
          [] m = Diastolic -> <<60, 80>>
          [] m = Pulse -> <<60, 100>>]

\* ------------------------------------------------------------ cells
Num(v) == [kind |-> "num", v |-> v]
NaN == [kind |-> "nan", v |-> 0]
Blank == [kind |-> "str", v |-> 0]

IsNum(c) == c.kind = "num"
notnull(c) == c.kind # "nan"

\* the range around which the cell values of a column are picked; a column
\* without a configured safe range gets values around a range of its own
RangeFor(m) == IF m \in DOMAIN emergency_ranges THEN emergency_ranges[m] ELSE <<95, 100>>

\* the in-range value every cell has unless the sheet says otherwise
Nominal(m) == Num(RangeFor(m)[1])

Levels == {"below", "high", "above", "nan", "blank"}

CellAt(m, level) ==
    CASE level = "below" -> Num(RangeFor(m)[1] - 1)
      [] level = "high" -> Num(RangeFor(m)[2])
      [] level = "above" -> Num(RangeFor(m)[2] + 1)
      [] level = "nan" -> NaN
      [] level = "blank" -> Blank

\* ------------------------------------------------------------ sheets
Days == 1..MaxDay
TimesOfDay == {0, TicksPerDay - TicksPerSecond, TicksPerDay - 1}
AllTimes == {d * TicksPerDay + t : d \in Days, t \in TimesOfDay}

\* by number of rows n, the Timestamp columns of a sheet: any instants in any order
AnyStamps == [n \in 0..MaxRows |-> [1..n -> AllTimes]]

\* one response a day at midnight (the last day repeats when rows outnumber days)
DailyStamps ==
    [n \in 0..MaxRows |-> {[i \in 1..n |-> (IF i < MaxDay THEN i ELSE MaxDay) * TicksPerDay]}]

\* the sets of at most maxOdd cells of a sheet of n rows
OddPositions(n, cols, maxOdd) ==
    {T \in SUBSET ((1..n) \X cols) : Cardinality(T) <= maxOdd}

\* the records of the sheet: timestamps ts, the cells of DOMAIN f at the
\* level f gives, every other cell nominal
Sheet(n, ts, cols, f) ==
    [i \in 1..n |->
        [Timestamp |-> ts[i],
         cells |-> [m \in cols |->
                      IF <<i, m>> \in DOMAIN f THEN CellAt(m, f[<<i, m>>])
                      ELSE Nominal(m)]]]

Todays == 1..(MaxDay + 1)

\* ------------------------------------------------------------ state
VARIABLES pc, err, df, today, default_start, date_range, selected_metrics,
          filtered_df, shown, emergencies, styles

vars == <<pc, err, df, today, default_start, date_range, selected_metrics,
          filtered_df, shown, emergencies, styles>>

Init ==
    /\ pc = "load"
    /\ err = "none"
    /\ df = <<>>
    /\ today = 0
    /\ default_start = 0
    /\ date_range = <<>>
    /\ selected_metrics = {}
    /\ filtered_df = <<>>
    /\ shown = {}
    /\ emergencies = {}
    /\ styles = {}

\* ------------------------------------------------------------ helpers
\* df['Date'] = df['Timestamp'].dt.date
Date(row) == row.Timestamp \div TicksPerDay

Columns(d) == IF d = <<>> THEN {} ELSE DOMAIN d[1].cells

Range(s) == {s[i] : i \in DOMAIN s}

SetMin(S) == CHOOSE x \in S : \A y \in S : x <= y
SetMax(S) == CHOOSE x \in S : \A y \in S : x >= y

RECURSIVE unique(_)
\* Series.unique(): the distinct values in order of first appearance
unique(s) ==
    IF s = <<>> THEN <<>>
    ELSE LET r == unique(SubSeq(s, 1, Len(s) - 1))
         IN  IF s[Len(s)] \in Range(r) THEN r ELSE Append(r, s[Len(s)])

\* s[::-1]
Reversed(s) == [i \in 1..Len(s) |-> s[Len(s) + 1 - i]]

available_dates(d) == Reversed(unique([i \in 1..Len(d) |-> Date(d[i])]))

\* pd.to_datetime(a date): midnight of that day
to_datetime(d) == d * TicksPerDay

start_datetime(dr) == to_datetime(dr[1])
end_datetime(dr) == to_datetime(dr[2]) + TicksPerDay - TicksPerSecond

\* the mask with | where the code has &
mask_either(d, dr) ==
    [i \in 1..Len(d) |->
        d[i].Timestamp >= start_datetime(dr) \/ d[i].Timestamp <= end_datetime(dr)]

mask(d, dr) ==
    [i \in 1..Len(d) |->
        d[i].Timestamp >= start_datetime(dr) /\ d[i].Timestamp <= end_datetime(dr)]

RECURSIVE loc(_, _)
\* df.loc[mask]: the index labels whose mask is true, in the frame's order;
\* n is the number of leading labels considered
loc(m, n) ==
    IF n = 0 THEN <<>>
    ELSE IF m[n] THEN Append(loc(m, n - 1), n) ELSE loc(m, n - 1)

\* df.copy(): every index label, in order
copy(d) == [i \in 1..Len(d) |-> i]

\* ------------------------------------------------------------ the run
\* lines 28-44: fetch the records, build the frame, parse the timestamps
LoadData(stamps, cols, maxOdd) ==
    /\ pc = "load"
    /\ \E n \in 0..MaxRows :
         \E ts \in stamps[n] :
           \E S \in OddPositions(n, cols, maxOdd) :
             \E f \in [S -> Levels] :
               LET data == Sheet(n, ts, cols, f)
               IN  IF data = <<>>
                   THEN /\ pc' = "failed"
                        /\ err' \in {"AttributeError@32", "KeyError@43"}
                        /\ df' = <<>>
                   ELSE /\ pc' = "defaults"
                        /\ err' = err
                        /\ df' = data
    /\ UNCHANGED <<today, default_start, date_range, selected_metrics,
                   filtered_df, shown, emergencies, styles>>

\* lines 62-65
DefaultDateRange ==
    /\ pc = "defaults"
    /\ \E t \in Todays :
         /\ today' = t
         /\ default_start' =
               IF t \in Range(available_dates(df)) THEN t ELSE available_dates(df)[1]
    /\ pc' = "sidebar"
    /\ UNCHANGED <<err, df, date_range, selected_metrics, filtered_df, shown,
                   emergencies, styles>>

\* what st.date_input can return: the default pair, a pair or a single date
\* picked between min_value and max_value, or nothing
DateInputs ==
    LET dates == {Date(df[i]) : i \in 1..Len(df)}
        pick == SetMin(dates)..SetMax(dates)
    IN  {<<default_start, default_start>>}
          \cup {<<s, e>> : s \in pick, e \in pick}
          \cup {<<s>> : s \in pick}
          \cup {<<>>}

\* lines 67-84
Sidebar(options) ==
    /\ pc = "sidebar"
    /\ date_range' \in DateInputs
    /\ selected_metrics' \in SUBSET options
    /\ pc' = "filter"
    /\ UNCHANGED <<err, df, today, default_start, filtered_df, shown,
                   emergencies, styles>>

\* a single picked date treated as a one-day range
filter_single_day(d, dr) ==
    IF Len(dr) = 2 THEN loc(mask(d, dr), Len(d))
    ELSE IF Len(dr) = 1 THEN loc(mask(d, <<dr[1], dr[1]>>), Len(d))
    ELSE copy(d)

filter(d, dr) == IF Len(dr) = 2 THEN loc(mask(d, dr), Len(d)) ELSE copy(d)

\* lines 86-94
FilterData ==
    /\ pc = "filter"
    /\ filtered_df' = filter(df, date_range)
    /\ pc' = "graph"
    /\ UNCHANGED <<err, df, today, default_start, date_range, selected_metrics,
                   shown, emergencies, styles>>

\* lines 117-120: the rows of fdf whose value of metric is outside (low, high)
emergency_mask(d, fdf, metric) ==
    LET low == emergency_ranges[metric][1]
        high == emergency_ranges[metric][2]
    IN  {i \in Range(fdf) :
            LET c == d[i].cells[metric]
            IN  IsNum(c) /\ (c.v < low \/ c.v > high)}

\* what one pass of the loop body of lines 106-130 raises for metric
ChartError(d, fdf, metric) ==
    IF metric \notin Columns(d) THEN "KeyError@109"
    ELSE IF metric \notin DOMAIN emergency_ranges THEN "KeyError@118"
    ELSE IF \E i \in Range(fdf) : d[i].cells[metric].kind = "str" THEN "TypeError@119"
    ELSE "none"

\* lines 96-140
Graph ==
    /\ pc = "graph"
    /\ IF filtered_df = <<>>
       THEN /\ shown' = {"warning"}
            /\ pc' = "table"
            /\ UNCHANGED <<err, emergencies>>
       ELSE IF selected_metrics = {}
       THEN /\ shown' = {"info"}
            /\ pc' = "table"
            /\ UNCHANGED <<err, emergencies>>
       ELSE LET raised == {ChartError(df, filtered_df, m) : m \in selected_metrics}
                             \ {"none"}
            IN  IF raised # {}
                THEN /\ err' \in raised
                     /\ pc' = "failed"
                     /\ UNCHANGED <<shown, emergencies>>
                ELSE /\ emergencies' =
                          {<<i, m>> \in Range(filtered_df) \X selected_metrics :
                              i \in emergency_mask(df, filtered_df, m)}
                     /\ shown' = {"chart"}
                     /\ pc' = "table"
                     /\ err' = err
    /\ UNCHANGED <<df, today, default_start, date_range, selected_metrics,
                   filtered_df, styles>>

\* line 143, without the leading "Timestamp" column
cols_to_show(d, sel) == {m \in sel : m \in Columns(d)}

\* the highlighting with the upper bound of the safe range excluded from it
highlight_inclusive(row, col) ==
    IF col \in DOMAIN emergency_ranges
    THEN LET low == emergency_ranges[col][1]
             high == emergency_ranges[col][2]
             value == row.cells[col]
         IN  IF notnull(value)
             THEN IF ~IsNum(value) THEN "TypeError@151"
                  ELSE IF value.v < low \/ value.v >= high THEN "hl" ELSE ""
             ELSE ""
    ELSE ""

\* lines 145-157 for one cell of a row: "hl" highlighted, "" not, or the error
highlight_emergencies(row, col) ==
    IF col \in DOMAIN emergency_ranges
    THEN LET low == emergency_ranges[col][1]
             high == emergency_ranges[col][2]
             value == row.cells[col]
         IN  IF notnull(value)
             THEN IF ~IsNum(value) THEN "TypeError@151"
                  ELSE IF value.v < low \/ value.v > high THEN "hl" ELSE ""
             ELSE ""
    ELSE ""

\* lines 142-161
RawData ==
    /\ pc = "table"
    /\ LET cells == Range(filtered_df) \X cols_to_show(df, selected_metrics)
           style(p) == highlight_emergencies(df[p[1]], p[2])
       IN  IF \E p \in cells : style(p) = "TypeError@151"
           THEN /\ err' = "TypeError@151"
                /\ pc' = "failed"
                /\ styles' = styles
           ELSE /\ styles' = {p \in cells : style(p) = "hl"}
                /\ pc' = "done"
                /\ err' = err
    /\ UNCHANGED <<df, today, default_start, date_range, selected_metrics,
                   filtered_df, shown, emergencies>>

\* Streamlit executes the script again from the top on the next interaction
Rerun ==
    /\ pc \in {"done", "failed"}
    /\ pc' = "load"
    /\ err' = "none"
    /\ df' = <<>>
    /\ today' = 0
    /\ default_start' = 0
    /\ date_range' = <<>>
    /\ selected_metrics' = {}
    /\ filtered_df' = <<>>
    /\ shown' = {}
    /\ emergencies' = {}
    /\ styles' = {}

Next ==
    \/ LoadData(AnyStamps, variables, 0)
    \/ DefaultDateRange
    \/ Sidebar(variables)
    \/ FilterData
    \/ Graph
    \/ RawData
    \/ Rerun

Spec == Init /\ [][Next]_vars

\* the same script over sheets with blank, nan and out-of-range cells
NextFlags ==
    \/ LoadData(DailyStamps, variables, MaxOdd)
    \/ DefaultDateRange
    \/ Sidebar(variables)
    \/ FilterData
    \/ Graph
    \/ RawData
    \/ Rerun

SpecFlags == Init /\ [][NextFlags]_vars

\* the flagging code over a sheet and a metric selection that include a
\* column without a configured safe range
NextAnnotate ==
    \/ LoadData(DailyStamps, variables \cup {SpO2}, MaxOdd)
    \/ DefaultDateRange
    \/ Sidebar(variables \cup {SpO2})
    \/ FilterData
    \/ Graph
    \/ RawData
    \/ Rerun

SpecAnnotate == Init /\ [][NextAnnotate]_vars

\* ------------------------------------------------------------ claims
Filtered == Range(filtered_df)
Filtering == {"graph", "table", "done"}
ReadingDates == {Date(df[i]) : i \in 1..Len(df)}

\* r has a value for m and the value is below low or above high
OutOfRange(i, m) ==
    /\ df[i].cells[m].kind = "num"
    /\ \/ df[i].cells[m].v < emergency_ranges[m][1]
       \/ df[i].cells[m].v > emergency_ranges[m][2]

\* C1: for every reading of the filtered dataset and every selected metric
\* with a safe range, the chart marks it and the table highlights it exactly
\* when the reading has a value below low or above high, and a reading with
\* an absent value raises no error in either path.
C1_FlaggedIffOutOfRange ==
    /\ err \notin {"TypeError@119", "TypeError@151"}
    /\ shown = {"chart"} =>
          \A i \in Filtered, m \in selected_metrics \cap DOMAIN emergency_ranges :
              <<i, m>> \in emergencies <=> OutOfRange(i, m)
    /\ pc = "done" =>
          \A i \in Filtered, m \in selected_metrics \cap DOMAIN emergency_ranges :
              <<i, m>> \in styles <=> OutOfRange(i, m)

C3_FilterByCalendarDate ==
    (pc \in Filtering /\ Len(date_range) = 2) =>
        Filtered = {i \in 1..Len(df) :
                       date_range[1] <= Date(df[i]) /\ Date(df[i]) <= date_range[2]}

\* C4: when the data source returns zero records the run does not fail: the
\* filter yields nothing, nothing is flagged and the run goes on to render.
C4_EmptyDatasetRenders ==
    (pc # "load" /\ df = <<>>) =>
        /\ pc # "failed"
        /\ filtered_df = <<>>
        /\ emergencies = {}
        /\ styles = {}

\* C5: with start later than end the filter returns an empty dataset and
\* raises no error.
C5_InvertedRangeIsEmpty ==
    (pc \in Filtering /\ Len(date_range) = 2 /\ date_range[1] > date_range[2]) =>
        (filtered_df = <<>> /\ err = "none")

C5_Witness ==
    /\ pc = "graph"
    /\ Len(date_range) = 2
    /\ date_range[1] > date_range[2]
    /\ Len(df) = MaxRows
    /\ filtered_df = <<>>

IsSubsequence(f, n) ==
    /\ \A k \in 1..Len(f) : f[k] \in 1..n
    /\ \A j, k \in 1..Len(f) : j < k => f[j] < f[k]

\* C6: filtering from the earliest to the latest reading date returns every
\* reading once and in order, and the filter's output is always a
\* subsequence of the dataset.
C6_FullRangeReturnsAll ==
    pc \in Filtering =>
        /\ IsSubsequence(filtered_df, Len(df))
        /\ date_range = <<SetMin(ReadingDates), SetMax(ReadingDates)>> =>
              (Len(filtered_df) = Len(df) /\ \A k \in 1..Len(df) : filtered_df[k] = k)

\* C7: whenever the chart is drawn, a reading has a red star for a selected
\* metric exactly when that metric's cell of its table row is highlighted.
C7_ChartAndTableAgree ==
    (shown = {"chart"} /\ pc \in {"done", "failed"}) =>
        /\ pc = "done"
        /\ \A i \in Filtered, m \in selected_metrics :
              <<i, m>> \in emergencies <=> <<i, m>> \in styles

C7_Witness ==
    /\ pc = "done"
    /\ shown = {"chart"}
    /\ \E p \in emergencies : p \in styles
    /\ \E i \in Filtered, m \in selected_metrics : <<i, m>> \notin emergencies \cup styles

\* C8: every run that gets to the graph section shows exactly one of the
\* no-data warning, the select-a-metric notice and the chart: the warning
\* whenever the filtered dataset is empty, the chart exactly when the
\* filtered dataset is not empty and a metric is selected.
C8_ExactlyOneOutcome ==
    (pc \in {"done", "failed"} /\ df # <<>>) =>
        /\ Cardinality(shown) = 1
        /\ filtered_df = <<>> => shown = {"warning"}
        /\ "chart" \in shown <=> (filtered_df # <<>> /\ selected_metrics # {})

\* C9: for a non-empty dataset the default selection is one day, today when
\* a reading is dated today and otherwise the date of the last row; it is
\* the date of a reading, lies between the earliest and the latest reading
\* date, and filtering with it returns at least one reading.
C9_DefaultDayHasReadings ==
    (pc \in {"sidebar", "filter"} \cup Filtering /\ df # <<>>) =>
        /\ default_start \in ReadingDates
        /\ today \in ReadingDates => default_start = today
        /\ today \notin ReadingDates => default_start = Date(df[Len(df)])
        /\ SetMin(ReadingDates) <= default_start
        /\ default_start <= SetMax(ReadingDates)
        /\ (pc \in Filtering /\ date_range = <<default_start, default_start>>) =>
              filtered_df # <<>>

\* C10: when the date input is not a pair of dates no date filter is
\* applied: the displayed dataset is the whole loaded dataset in its order,
\* and the loaded dataset is not changed during the run.
C10_NoPairNoFilter ==
    /\ [](pc \in Filtering /\ Len(date_range) # 2 =>
            (Len(filtered_df) = Len(df) /\ \A k \in 1..Len(df) : filtered_df[k] = k))
    /\ [][(pc # "load" /\ pc' # "load") => df' = df]_vars

C10_Witness ==
    /\ pc = "graph"
    /\ Len(date_range) = 1
    /\ Len(df) = MaxRows
    /\ Date(df[1]) # date_range[1]
    /\ Len(filtered_df) = MaxRows

====
